---- MODULE Spec2Model ----
(***************************************************************************)
(* The shared task store of the mobile task list (TaskProvider in App.tsx) *)
(* together with the remote REST API it talks to.  Every asynchronous      *)
(* function of the provider is split at its `await`: one action for the    *)
(* call (up to the request being sent), one for the continuation after the *)
(* request resolved, one for the continuation after it was rejected.       *)
(***************************************************************************)
EXTENDS Integers, Sequences, FiniteSets, TLC

\* ---------------------------------------------------------------- bounds
\* Number of store operations the views invoke after the mount fetch.
MaxOps == 2

\* ------------------------------------------------------------ value sets
Statuses == {"pending", "completed"}

NullDate == "null"

\* Payloads the Create view submits: { title, description, dueDate }.  Its
\* title is never blank and its dueDate is always a YYYY-MM-DD string.  A
\* title is the sequence of its characters.
CreateInputs ==
  { [title |-> << "C" >>, description |-> "e", dueDate |-> "2026-03-04"] }

\* interface Task
Task(id, title, description, status, dueDate) ==
  [id |-> id, title |-> title, description |-> description,
   status |-> status, dueDate |-> dueDate]

\* The collection the server holds when the session starts.
InitialServer ==
  << Task(1, << "A" >>, "", "pending", NullDate),
     Task(2, << "B" >>, "d", "completed", "2026-01-02") >>

\* ----------------------------------------------------------------- state
VARIABLES
  tasks,      \* useState<Task[]>([])      the cached collection
  isLoading,  \* useState(false)           the loading flag
  mounted,    \* the provider's mount effect has run
  reqs,       \* requests of the axios instance `api` that are in flight
  ops,        \* number of store operations the views have invoked
  server,     \* the remote API's task collection
  nextId,     \* the remote API's id generator
  ver,        \* number of writes the remote API has applied
  cacheVer,   \* `ver` at which the collection now cached was read (-1: none)
  ev,         \* the step just taken and what it signalled
  screen,     \* the route on top of the navigation stack
  isSaving,   \* AddTaskScreen: useState(false)
  routeTaskId,\* TaskDetailScreen: route.params.taskId (0: not mounted)
  localTask,  \* TaskDetailScreen: useState(null); << >> stands for null
  loading,    \* TaskDetailScreen: useState(true) (FALSE while not mounted)
  orphans,    \* requests in flight whose view has been unmounted
  vev         \* what the view code of the step just taken signalled

vars == << tasks, isLoading, mounted, reqs, ops, server, nextId, ver,
           cacheVer, ev, screen, isSaving, routeTaskId, localTask, loading,
           orphans, vev >>

\* ------------------------------------------------------- pure operators
IdsOf(ts) == { ts[i].id : i \in 1..Len(ts) }

\* A lookup that takes the id for a position in the list.
getTaskByIndex(ts, taskId) ==
  IF taskId \in 1..Len(ts) THEN << ts[taskId] >> ELSE << >>

\* tasks.find(t => t.id === taskId): the first match, or undefined.  The
\* result is a sequence of at most one task; << >> stands for undefined.
getTaskById(ts, taskId) ==
  LET hits == { i \in 1..Len(ts) : ts[i].id = taskId }
  IN IF hits = {} THEN << >>
     ELSE << ts[CHOOSE i \in hits : \A j \in hits : i <= j] >>

\* What a step signals: the alert it raises, whether it rejects the promise
\* its caller holds, and the value it returns.
\* `of` names the store operation whose fetchTasks() call completed.
Event(kind, alert, thrown) ==
  [kind |-> kind, of |-> "", alert |-> alert, thrown |-> thrown, id |-> 0,
   result |-> << >>]

FetchEvent(kind, of, alert) ==
  [kind |-> kind, of |-> of, alert |-> alert, thrown |-> FALSE, id |-> 0,
   result |-> << >>]

NoData == [title |-> << >>, description |-> "", dueDate |-> NullDate]

\* What a request carries besides its method: the id in the URL and the body.
Arg(id, status, data) == [id |-> id, status |-> status, data |-> data]

NoArg == Arg(0, "", NoData)

\* A request handed to axios by the store operation numbered `rid`.
\*   phase    "sent": the server has not handled it; "served": the server
\*            handled it and the response is on its way;
\*   payload  response.data of a served GET, readVer the server's write count
\*            when it was read;
\*   arg      the id in the request's URL and its body;
\*   op, call the store operation the request belongs to and the arguments
\*            it was called with: a GET sent by the fetchTasks() that
\*            createTask / updateTaskStatus / deleteTask makes keeps that
\*            operation's name and arguments;
\*   pre, insync, ver0  the cache when a mutating operation was called,
\*            whether it was the server's collection, and the server's write
\*            count then.
Request(rid, method, arg, op, call, pre, insync, ver0) ==
  [rid |-> rid, method |-> method, arg |-> arg, phase |-> "sent",
   payload |-> << >>, readVer |-> -1, op |-> op, call |-> call, pre |-> pre,
   insync |-> insync, ver0 |-> ver0]

\* The GET of a fetchTasks() called by the mount effect or the list view.
PlainGet(rid) == Request(rid, "GET", NoArg, "fetch", NoArg, << >>, FALSE, -1)

\* The GET of the fetchTasks() called by the mutating operation that sent r.
ResyncGet(r) ==
  Request(r.rid, "GET", NoArg, r.op, r.call, r.pre, r.insync, r.ver0)

\* ------------------------------------------------------------ remote API
\* POST /api/tasks: the server assigns the id; a new task is pending.
ServerCreate(srv, id, data) ==
  Append(srv, Task(id, data.title, data.description, "pending", data.dueDate))

\* PATCH /api/tasks/{id}/status with body { status }.
ServerSetStatus(srv, id, status) ==
  [i \in 1..Len(srv) |->
     IF srv[i].id = id THEN [srv[i] EXCEPT !.status = status] ELSE srv[i]]

\* DELETE /api/tasks/{id}.
ServerDelete(srv, id) ==
  SelectSeq(srv, LAMBDA t : t.id # id)

\* Requests that read: GET /api/tasks and GET /api/tasks/{id} ("GETONE").
Reads == {"GET", "GETONE"}

\* The server handles request r.  A request for an id the server does not
\* hold is answered with an error: then only the rejection can follow.
Serve(r) ==
  /\ r \in reqs
  /\ r.phase = "sent"
  /\ r.method \in {"PATCH", "DELETE", "GETONE"} => r.arg.id \in IdsOf(server)
  /\ server' = CASE r.method \in Reads -> server
                 [] r.method = "POST" -> ServerCreate(server, nextId, r.arg.data)
                 [] r.method = "PATCH" ->
                      ServerSetStatus(server, r.arg.id, r.arg.status)
                 [] r.method = "DELETE" -> ServerDelete(server, r.arg.id)
  /\ nextId' = IF r.method = "POST" THEN nextId + 1 ELSE nextId
  /\ ver' = IF r.method \in Reads THEN ver ELSE ver + 1
  /\ reqs' = (reqs \ {r}) \cup
             { [r EXCEPT !.phase = "served",
                         !.payload =
                           CASE r.method = "GET" -> server
                             [] r.method = "GETONE" ->
                                  getTaskById(server, r.arg.id)
                             [] OTHER -> << >>,
                         !.readVer = IF r.method \in Reads THEN ver ELSE -1] }
  /\ ev' = Event("serve", "none", FALSE)
  /\ UNCHANGED << tasks, isLoading, mounted, ops, cacheVer >>

\* ------------------------------------------------------------ fetchTasks
\* fetchTasks up to its await: setIsLoading(true); api.get('/api/tasks').
\* `rs` are the requests that stay in flight, `get` is the request sent.
FetchTasksCall(rs, get) ==
  /\ isLoading' = TRUE
  /\ reqs' = rs \cup { get }

\* React.useEffect(() => { fetchTasks(); }, [fetchTasks]) on mount.
MountEffect ==
  /\ ~mounted
  /\ mounted' = TRUE
  /\ FetchTasksCall(reqs, PlainGet(0))
  /\ ev' = Event("fetchCall", "none", FALSE)
  /\ UNCHANGED << tasks, ops, server, nextId, ver, cacheVer >>

\* <RefreshControl refreshing={isLoading} onRefresh={fetchTasks} />: the
\* control does not fire again while it shows as refreshing.
PullToRefresh ==
  /\ mounted
  /\ ~isLoading
  /\ ops < MaxOps
  /\ ops' = ops + 1
  /\ FetchTasksCall(reqs, PlainGet(ops + 1))
  /\ ev' = Event("fetchCall", "none", FALSE)
  /\ UNCHANGED << tasks, mounted, server, nextId, ver, cacheVer >>

\* A fetchTasks that appends the response to the cache instead of replacing it.
FetchTasksResolveMerge(r) ==
  /\ r \in reqs
  /\ r.method = "GET"
  /\ r.phase = "served"
  /\ tasks' = tasks \o r.payload
  /\ cacheVer' = r.readVer
  /\ isLoading' = FALSE
  /\ reqs' = reqs \ {r}
  /\ ev' = FetchEvent("fetchOk", r.op, "none")
  /\ UNCHANGED << mounted, ops, server, nextId, ver >>

\* A fetchTasks that applies a response only when the cache is still empty.
FetchTasksResolveOnce(r) ==
  /\ r \in reqs
  /\ r.method = "GET"
  /\ r.phase = "served"
  /\ tasks' = IF tasks = << >> THEN r.payload ELSE tasks
  /\ cacheVer' = r.readVer
  /\ isLoading' = FALSE
  /\ reqs' = reqs \ {r}
  /\ ev' = FetchEvent("fetchOk", r.op, "none")
  /\ UNCHANGED << mounted, ops, server, nextId, ver >>

\* A fetchTasks that drops a response read before the one the cache holds.
FetchTasksResolveNewest(r) ==
  /\ r \in reqs
  /\ r.method = "GET"
  /\ r.phase = "served"
  /\ tasks' = IF r.readVer >= cacheVer THEN r.payload ELSE tasks
  /\ cacheVer' = IF r.readVer >= cacheVer THEN r.readVer ELSE cacheVer
  /\ isLoading' = FALSE
  /\ reqs' = reqs \ {r}
  /\ ev' = FetchEvent("fetchOk", r.op, "none")
  /\ UNCHANGED << mounted, ops, server, nextId, ver >>

\* try { response = await api.get(..); setTasks(response.data) }
\* finally { setIsLoading(false) }
FetchTasksResolve(r) ==
  /\ r \in reqs
  /\ r.method = "GET"
  /\ r.phase = "served"
  /\ tasks' = r.payload
  /\ cacheVer' = r.readVer
  /\ isLoading' = FALSE
  /\ reqs' = reqs \ {r}
  /\ ev' = FetchEvent("fetchOk", r.op, "none")
  /\ UNCHANGED << mounted, ops, server, nextId, ver >>

\* A fetchTasks whose catch block empties the cache.
FetchTasksRejectClears(r) ==
  /\ r \in reqs
  /\ r.method = "GET"
  /\ tasks' = << >>
  /\ isLoading' = FALSE
  /\ reqs' = reqs \ {r}
  /\ ev' = FetchEvent("fetchFail", r.op, "connectivity")
  /\ UNCHANGED << mounted, ops, server, nextId, ver, cacheVer >>

\* A fetchTasks that raises the alert and rethrows the error to its caller.
FetchTasksRejectRethrows(r) ==
  /\ r \in reqs
  /\ r.method = "GET"
  /\ isLoading' = FALSE
  /\ reqs' = reqs \ {r}
  /\ ev' = [FetchEvent("fetchFail", r.op, "connectivity")
              EXCEPT !.thrown = TRUE]
  /\ UNCHANGED << tasks, mounted, ops, server, nextId, ver, cacheVer >>

\* catch (e) { console.error; Alert.alert("Bağlantı Hatası", ..) }
\* finally { setIsLoading(false) }.  The request failed in transit, was
\* answered with an error, or its response was lost.
FetchTasksReject(r) ==
  /\ r \in reqs
  /\ r.method = "GET"
  /\ isLoading' = FALSE
  /\ reqs' = reqs \ {r}
  /\ ev' = FetchEvent("fetchFail", r.op, "connectivity")
  /\ UNCHANGED << tasks, mounted, ops, server, nextId, ver, cacheVer >>

\* ------------------------------------------------------------- mutations
\* A mutating operation up to its await: called with `call`, it hands a
\* request carrying `arg` to axios.
MutationCall(op, method, call, arg) ==
  /\ mounted
  /\ ops < MaxOps
  /\ ops' = ops + 1
  /\ reqs' = reqs \cup
             { Request(ops + 1, method, arg, op, call, tasks, tasks = server,
                       ver) }
  /\ ev' = Event(op \o "Call", "none", FALSE)
  /\ UNCHANGED << tasks, isLoading, mounted, server, nextId, ver, cacheVer >>

\* A mutating operation that calls fetchTasks() before its request resolved.
MutationResumeEarly(op, method, r) ==
  /\ r \in reqs
  /\ r.method = method
  /\ FetchTasksCall(reqs \ {r}, ResyncGet(r))
  /\ ev' = Event(op \o "Ok", "none", FALSE)
  /\ UNCHANGED << tasks, mounted, ops, server, nextId, ver, cacheVer >>

\* The continuation after `await api.<method>(..)` resolved: fetchTasks() is
\* called and not awaited, then the promise returned to the caller resolves.
MutationResume(op, method, r) ==
  /\ r \in reqs
  /\ r.method = method
  /\ r.phase = "served"
  /\ FetchTasksCall(reqs \ {r}, ResyncGet(r))
  /\ ev' = Event(op \o "Ok", "none", FALSE)
  /\ UNCHANGED << tasks, mounted, ops, server, nextId, ver, cacheVer >>

\* A mutating operation that calls fetchTasks() in a finally block, so after
\* a rejection too.
MutationThrowResyncs(op, method, r) ==
  /\ r \in reqs
  /\ r.method = method
  /\ FetchTasksCall(reqs \ {r}, ResyncGet(r))
  /\ ev' = Event(op \o "Fail", "none", TRUE)
  /\ UNCHANGED << tasks, mounted, ops, server, nextId, ver, cacheVer >>

\* `await api.<method>(..)` rejected: nothing catches it, the promise
\* returned to the caller rejects with the API error.
MutationThrow(op, method, r) ==
  /\ r \in reqs
  /\ r.method = method
  /\ reqs' = reqs \ {r}
  /\ ev' = Event(op \o "Fail", "none", TRUE)
  /\ UNCHANGED << tasks, isLoading, mounted, ops, server, nextId, ver,
                  cacheVer >>

\* A createTask that posts the title alone.
CreateTaskTitleOnly(data) ==
  MutationCall("create", "POST", Arg(0, "", data),
               Arg(0, "", [NoData EXCEPT !.title = data.title]))

\* createTask(data): await api.post('/api/tasks', data); fetchTasks();
CreateTask(data) ==
  MutationCall("create", "POST", Arg(0, "", data), Arg(0, "", data))

CreateTaskResume(r) == MutationResume("create", "POST", r)

CreateTaskThrow(r) == MutationThrow("create", "POST", r)

\* An updateTaskStatus that always marks the task completed.
UpdateTaskStatusCompletes(taskId, status) ==
  MutationCall("update", "PATCH", Arg(taskId, status, NoData),
               Arg(taskId, "completed", NoData))

\* updateTaskStatus(taskId, status):
\* await api.patch(`/api/tasks/${taskId}/status`, { status }); fetchTasks();
UpdateTaskStatus(taskId, status) ==
  MutationCall("update", "PATCH", Arg(taskId, status, NoData),
               Arg(taskId, status, NoData))

UpdateTaskStatusResume(r) == MutationResume("update", "PATCH", r)

UpdateTaskStatusThrow(r) == MutationThrow("update", "PATCH", r)

\* A deleteTask that deletes the first cached task whatever the id.
DeleteTaskFirst(taskId) ==
  MutationCall("delete", "DELETE", Arg(taskId, "", NoData),
               Arg(tasks[1].id, "", NoData))

\* deleteTask(taskId): await api.delete(`/api/tasks/${taskId}`); fetchTasks();
DeleteTask(taskId) ==
  MutationCall("delete", "DELETE", Arg(taskId, "", NoData),
               Arg(taskId, "", NoData))

DeleteTaskResume(r) == MutationResume("delete", "DELETE", r)

DeleteTaskThrow(r) == MutationThrow("delete", "DELETE", r)

\* ------------------------------------------------------------ getTaskById
\* Ids a view asks for: ids of the initial collection and the first new id.
LookupIds == 1..(Len(InitialServer) + 1)

\* const getTaskById = (taskId) => tasks.find(t => t.id === taskId), called by
\* a view while it renders.
GetTaskById(taskId) ==
  /\ mounted
  /\ ev' = [kind |-> "getById", of |-> "", alert |-> "none", thrown |-> FALSE,
            id |-> taskId, result |-> getTaskById(tasks, taskId)]
  /\ UNCHANGED << tasks, isLoading, mounted, reqs, ops, server, nextId, ver,
                  cacheVer >>

\* --------------------------------------------------------- specification
\* What the view code of a step signals: the alert it raises and the
\* navigation call it makes.  A step of handleSave also tells the title it
\* was called with.
ViewEvent(alert, nav) ==
  [handler |-> "", alert |-> alert, nav |-> nav, title |-> << >>]

SaveEvent(alert, title) ==
  [handler |-> "handleSave", alert |-> alert, nav |-> "none", title |-> title]

NoViewEvent == ViewEvent("none", "none")

\* A step in which no view code runs.
ViewIdle ==
  /\ vev' = NoViewEvent
  /\ UNCHANGED << screen, isSaving, routeTaskId, localTask, loading, orphans >>

\* ------------------------------------------------------------ navigation
\* Requests in flight that a view's handler waits for: every request but
\* the Store's GET /api/tasks.
ViewRids == { q.rid : q \in { x \in reqs : x.method # "GET" } }

\* navigation.goBack(): the screen on top of the stack is popped and its
\* component unmounted, so the handlers that still wait for a request have
\* lost their view.  `done` is the request whose continuation makes the call.
GoBack(done) ==
  /\ screen' = "home"
  /\ orphans' = (orphans \cup ViewRids) \ done

\* The back button of the header, which the Create view always renders and
\* the Detail view renders once it shows a task.
PressBack ==
  /\ \/ screen = "addTask"
     \/ screen = "taskDetail" /\ ~loading /\ localTask # << >>
  /\ GoBack({})
  /\ ev' = Event("pressBack", "none", FALSE)
  /\ vev' = ViewEvent("none", "goBack")
  /\ UNCHANGED << tasks, isLoading, mounted, reqs, ops, server, nextId, ver,
                  cacheVer, isSaving, routeTaskId, localTask, loading >>

\* ----------------------------------------------------------- Create view
Whitespace == { " " }

\* String.prototype.trim(): the text without leading and trailing whitespace.
RECURSIVE trimStart(_)
trimStart(s) ==
  IF s # << >> /\ Head(s) \in Whitespace THEN trimStart(Tail(s)) ELSE s

RECURSIVE trimEnd(_)
trimEnd(s) ==
  IF s # << >> /\ s[Len(s)] \in Whitespace
    THEN trimEnd(SubSeq(s, 1, Len(s) - 1))
    ELSE s

trim(s) == trimEnd(trimStart(s))

\* What the user has typed and picked when pressing the save button.  A Date
\* is an instant: its UTC calendar date and its UTC time of day.
Titles == { << >>, << " ", " " >>, << "C" >> }

Descriptions == { "e" }

DueDates == { [date |-> "2026-03-04", time |-> "21:30:00.000Z"] }

\* dueDate.toISOString() is <date>T<time>; .split('T')[0] keeps the date.
dateToSend(dueDate) == dueDate.date

\* The floating button of the list view: navigation.navigate('addTask')
\* mounts a Create view, with isSaving false.
OpenAddTask ==
  /\ mounted
  /\ screen = "home"
  /\ screen' = "addTask"
  /\ isSaving' = FALSE
  /\ ev' = Event("navigate", "none", FALSE)
  /\ vev' = ViewEvent("none", "addTask")
  /\ UNCHANGED << tasks, isLoading, mounted, reqs, ops, server, nextId, ver,
                  cacheVer, routeTaskId, localTask, loading, orphans >>

\* A handleSave that tests the title without trimming it.
handleSaveUntrimmed(title, description, dueDate) ==
  /\ screen = "addTask"
  /\ ~isSaving
  /\ IF title = << >>
       THEN /\ ev' = Event("handleSave", "none", FALSE)
            /\ vev' = SaveEvent("validation", title)
            /\ UNCHANGED << tasks, isLoading, mounted, reqs, ops, server,
                            nextId, ver, cacheVer, screen, isSaving,
                            routeTaskId, localTask, loading, orphans >>
       ELSE /\ isSaving' = TRUE
            /\ CreateTask([title |-> title, description |-> description,
                           dueDate |-> dateToSend(dueDate)])
            /\ vev' = SaveEvent("none", title)
            /\ UNCHANGED << screen, routeTaskId, localTask, loading,
                            orphans >>

\* handleSave up to its await; the save button is disabled while isSaving.
\*   if (!title.trim()) { Alert.alert("Hata", ..); return; }
\*   setIsSaving(true); await createTask({ title, description, dueDate })
handleSave(title, description, dueDate) ==
  /\ screen = "addTask"
  /\ ~isSaving
  /\ IF trim(title) = << >>
       THEN /\ ev' = Event("handleSave", "none", FALSE)
            /\ vev' = SaveEvent("validation", title)
            /\ UNCHANGED << tasks, isLoading, mounted, reqs, ops, server,
                            nextId, ver, cacheVer, screen, isSaving,
                            routeTaskId, localTask, loading, orphans >>
       ELSE /\ isSaving' = TRUE
            /\ CreateTask([title |-> title, description |-> description,
                           dueDate |-> dateToSend(dueDate)])
            /\ vev' = SaveEvent("none", title)
            /\ UNCHANGED << screen, routeTaskId, localTask, loading,
                            orphans >>

\* createTask resolved: navigation.goBack(); finally setIsSaving(false),
\* which React ignores when the view that called is unmounted.
handleSaveResume(r) ==
  /\ CreateTaskResume(r)
  /\ GoBack({r.rid})
  /\ isSaving' = IF r.rid \in orphans THEN isSaving ELSE FALSE
  /\ vev' = ViewEvent("none", "goBack")
  /\ UNCHANGED << routeTaskId, localTask, loading >>

\* createTask rejected: catch { Alert.alert("Hata", ..) }
\* finally { setIsSaving(false) }.
handleSaveCatch(r) ==
  /\ CreateTaskThrow(r)
  /\ isSaving' = IF r.rid \in orphans THEN isSaving ELSE FALSE
  /\ orphans' = orphans \ {r.rid}
  /\ vev' = ViewEvent("saveFailed", "none")
  /\ UNCHANGED << screen, routeTaskId, localTask, loading >>

\* ----------------------------------------------------------- Detail view
\* The GET /api/tasks/{taskId} of fetchDetail.
DetailGet(rid, id) ==
  Request(rid, "GETONE", Arg(id, "", NoData), "detail", Arg(id, "", NoData),
          << >>, FALSE, -1)

\* A card of the list view is pressed: navigation.navigate('taskDetail',
\* { taskId }) mounts a Detail view with localTask null and loading true,
\* and its effect calls fetchDetail: setLoading(true); await api.get(..).
OpenDetail(id) ==
  /\ screen = "home"
  /\ ops < MaxOps
  /\ ops' = ops + 1
  /\ screen' = "taskDetail"
  /\ routeTaskId' = id
  /\ localTask' = << >>
  /\ loading' = TRUE
  /\ reqs' = reqs \cup { DetailGet(ops + 1, id) }
  /\ ev' = Event("fetchDetailCall", "none", FALSE)
  /\ vev' = ViewEvent("none", "taskDetail")
  /\ UNCHANGED << tasks, isLoading, mounted, server, nextId, ver, cacheVer,
                  isSaving, orphans >>

\* fetchDetail resumed: setLocalTask(response.data);
\* finally { setLoading(false) }.
fetchDetailResolve(r) ==
  /\ r \in reqs
  /\ r.method = "GETONE"
  /\ r.phase = "served"
  /\ reqs' = reqs \ {r}
  /\ localTask' = IF r.rid \in orphans THEN localTask ELSE r.payload
  /\ loading' = IF r.rid \in orphans THEN loading ELSE FALSE
  /\ orphans' = orphans \ {r.rid}
  /\ ev' = Event("fetchDetailOk", "none", FALSE)
  /\ vev' = NoViewEvent
  /\ UNCHANGED << tasks, isLoading, mounted, ops, server, nextId, ver,
                  cacheVer, screen, isSaving, routeTaskId >>

\* A fetchDetail whose catch block raises the alert and stays on the view.
fetchDetailRejectStays(r) ==
  /\ r \in reqs
  /\ r.method = "GETONE"
  /\ reqs' = reqs \ {r}
  /\ orphans' = orphans \ {r.rid}
  /\ loading' = IF r.rid \in orphans THEN loading ELSE FALSE
  /\ ev' = Event("fetchDetailFail", "none", FALSE)
  /\ vev' = ViewEvent("detailFailed", "none")
  /\ UNCHANGED << tasks, isLoading, mounted, ops, server, nextId, ver,
                  cacheVer, screen, isSaving, routeTaskId, localTask >>

\* fetchDetail's request failed: catch { Alert.alert("Hata", ..);
\* navigation.goBack() } finally { setLoading(false) }.
fetchDetailReject(r) ==
  /\ r \in reqs
  /\ r.method = "GETONE"
  /\ reqs' = reqs \ {r}
  /\ GoBack({r.rid})
  /\ loading' = IF r.rid \in orphans THEN loading ELSE FALSE
  /\ ev' = Event("fetchDetailFail", "none", FALSE)
  /\ vev' = ViewEvent("detailFailed", "goBack")
  /\ UNCHANGED << tasks, isLoading, mounted, ops, server, nextId, ver,
                  cacheVer, isSaving, routeTaskId, localTask >>

\* The buttons of the Detail view are rendered once it shows a task.
DetailShown == screen = "taskDetail" /\ ~loading /\ localTask # << >>

\* handleToggleStatus up to its await:
\*   newStatus = localTask.status === 'completed' ? 'pending' : 'completed'
\*   await updateTaskStatus(taskId, newStatus)
handleToggleStatus ==
  /\ DetailShown
  /\ UpdateTaskStatus(routeTaskId,
                      IF localTask[1].status = "completed"
                        THEN "pending" ELSE "completed")
  /\ vev' = NoViewEvent
  /\ UNCHANGED << screen, isSaving, routeTaskId, localTask, loading,
                  orphans >>

\* A handleToggleStatus that stores its patch in the Store's cache.
handleToggleStatusPatchesCache(r) ==
  /\ r \in reqs
  /\ r.method = "PATCH"
  /\ r.phase = "served"
  /\ tasks' = [i \in 1..Len(tasks) |->
                 IF tasks[i].id = r.call.id
                   THEN [tasks[i] EXCEPT !.status = r.call.status]
                   ELSE tasks[i]]
  /\ isLoading' = TRUE
  /\ reqs' = (reqs \ {r}) \cup { ResyncGet(r) }
  /\ ev' = Event("updateOk", "none", FALSE)
  /\ localTask' = IF r.rid \in orphans \/ localTask = << >>
                    THEN localTask
                    ELSE << [localTask[1] EXCEPT !.status = r.call.status] >>
  /\ orphans' = orphans \ {r.rid}
  /\ vev' = ViewEvent("statusUpdated", "none")
  /\ UNCHANGED << mounted, ops, server, nextId, ver, cacheVer, screen,
                  isSaving, routeTaskId, loading >>

\* updateTaskStatus resolved: setLocalTask({ ...localTask, status: newStatus })
\* and Alert.alert("Başarılı", ..).  The localTask the handler captured
\* differs from the view's current one in its status at most.
handleToggleStatusResume(r) ==
  /\ UpdateTaskStatusResume(r)
  /\ localTask' = IF r.rid \in orphans \/ localTask = << >>
                    THEN localTask
                    ELSE << [localTask[1] EXCEPT !.status = r.call.status] >>
  /\ orphans' = orphans \ {r.rid}
  /\ vev' = ViewEvent("statusUpdated", "none")
  /\ UNCHANGED << screen, isSaving, routeTaskId, loading >>

\* updateTaskStatus rejected: catch { Alert.alert("Hata", ..) }.
handleToggleStatusCatch(r) ==
  /\ UpdateTaskStatusThrow(r)
  /\ orphans' = orphans \ {r.rid}
  /\ vev' = ViewEvent("statusFailed", "none")
  /\ UNCHANGED << screen, isSaving, routeTaskId, localTask, loading >>

\* handleDelete once the user confirms the dialog: await deleteTask(taskId).
handleDelete ==
  /\ DetailShown
  /\ DeleteTask(routeTaskId)
  /\ vev' = NoViewEvent
  /\ UNCHANGED << screen, isSaving, routeTaskId, localTask, loading,
                  orphans >>

\* deleteTask resolved: navigation.goBack().
handleDeleteResume(r) ==
  /\ DeleteTaskResume(r)
  /\ GoBack({r.rid})
  /\ vev' = ViewEvent("none", "goBack")
  /\ UNCHANGED << isSaving, routeTaskId, localTask, loading >>

\* deleteTask rejected: catch { Alert.alert("Hata", ..) }.
handleDeleteCatch(r) ==
  /\ DeleteTaskThrow(r)
  /\ orphans' = orphans \ {r.rid}
  /\ vev' = ViewEvent("deleteFailed", "none")
  /\ UNCHANGED << screen, isSaving, routeTaskId, localTask, loading >>

Init ==
  /\ tasks = << >>
  /\ isLoading = FALSE
  /\ mounted = FALSE
  /\ reqs = {}
  /\ ops = 0
  /\ server = InitialServer
  /\ nextId = Len(server) + 1
  /\ ver = 0
  /\ cacheVer = -1
  /\ ev = Event("init", "none", FALSE)
  /\ screen = "home"
  /\ isSaving = FALSE
  /\ routeTaskId = 0
  /\ localTask = << >>
  /\ loading = FALSE
  /\ orphans = {}
  /\ vev = NoViewEvent

\* The Store on its own: its operations called at any moment, by callers
\* that are not modelled.
Next ==
  \/ MountEffect /\ ViewIdle
  \/ PullToRefresh /\ ViewIdle
  \/ \E r \in reqs : Serve(r) /\ ViewIdle
  \/ \E r \in reqs : FetchTasksResolve(r) /\ ViewIdle
  \/ \E r \in reqs : FetchTasksReject(r) /\ ViewIdle
  \/ \E data \in CreateInputs : CreateTask(data) /\ ViewIdle
  \/ \E r \in reqs : CreateTaskResume(r) /\ ViewIdle
  \/ \E r \in reqs : CreateTaskThrow(r) /\ ViewIdle
  \/ \E id \in IdsOf(tasks), s \in Statuses :
       UpdateTaskStatus(id, s) /\ ViewIdle
  \/ \E r \in reqs : UpdateTaskStatusResume(r) /\ ViewIdle
  \/ \E r \in reqs : UpdateTaskStatusThrow(r) /\ ViewIdle
  \/ \E id \in IdsOf(tasks) : DeleteTask(id) /\ ViewIdle
  \/ \E r \in reqs : DeleteTaskResume(r) /\ ViewIdle
  \/ \E r \in reqs : DeleteTaskThrow(r) /\ ViewIdle

Spec == Init /\ [][Next]_vars

\* Sessions in which the views wait for one request before they cause the
\* next, and look tasks up in the cache at any moment.
NextLookup ==
  \/ Next /\ Cardinality(reqs') <= 1
  \/ \E id \in LookupIds : GetTaskById(id) /\ ViewIdle

SpecLookup == Init /\ [][NextLookup]_vars

\* The application: the Store's operations are called by the views, which
\* the user reaches from the list view.
NextViews ==
  \/ MountEffect /\ ViewIdle
  \/ PullToRefresh /\ screen = "home" /\ ViewIdle
  \/ \E r \in reqs : Serve(r) /\ ViewIdle
  \/ \E r \in reqs : FetchTasksResolve(r) /\ ViewIdle
  \/ \E r \in reqs : FetchTasksReject(r) /\ ViewIdle
  \/ PressBack
  \/ OpenAddTask
  \/ \E title \in Titles, description \in Descriptions, dueDate \in DueDates :
       handleSave(title, description, dueDate)
  \/ \E r \in reqs : handleSaveResume(r)
  \/ \E r \in reqs : handleSaveCatch(r)
  \/ \E id \in IdsOf(tasks) : OpenDetail(id)
  \/ \E r \in reqs : fetchDetailResolve(r)
  \/ \E r \in reqs : fetchDetailReject(r)
  \/ handleToggleStatus
  \/ \E r \in reqs : handleToggleStatusResume(r)
  \/ \E r \in reqs : handleToggleStatusCatch(r)
  \/ handleDelete
  \/ \E r \in reqs : handleDeleteResume(r)
  \/ \E r \in reqs : handleDeleteCatch(r)

SpecViews == Init /\ [][NextViews]_vars

\* The application when its views wait for one request before they cause
\* the next, with the cache looked up at any moment.
NextCache ==
  \/ NextViews /\ Cardinality(reqs') <= 1
  \/ \E id \in LookupIds : GetTaskById(id) /\ ViewIdle

SpecCache == Init /\ [][NextCache]_vars

\* ---------------------------------------------------------------- claims
\* The requests a step takes out of flight, and the ones it puts in flight.
Settled == reqs \ reqs'

Issued == { q \in reqs' \ reqs : q.phase = "sent" }

GetsInFlight == { r \in reqs : r.method = "GET" }

\* C1: whenever a fetchTasks call completes successfully, the cache becomes
\* exactly the sequence the server returned for that call (same tasks, same
\* order, nothing kept from the previous cache).
C1_FetchReplacesCache ==
  [][ ev'.kind = "fetchOk" =>
        \E r \in Settled :
          /\ r.method = "GET"
          /\ r.phase = "served"
          /\ tasks' = r.payload ]_vars

\* A successful fetch has replaced a non-empty cache by a collection the
\* server held after a write.
C1_Witness ==
  /\ ev.kind = "fetchOk"
  /\ cacheVer > 0
  /\ tasks = server
  /\ tasks # InitialServer

\* C2: when a fetchTasks call fails, the cache is what it was before, the
\* connectivity alert is raised, the loading flag is cleared and nothing is
\* thrown to the caller.
C2_FetchFailureKeepsCache ==
  [][ ev'.kind = "fetchFail" =>
        /\ tasks' = tasks
        /\ ev'.alert = "connectivity"
        /\ isLoading' = FALSE
        /\ ev'.thrown = FALSE ]_vars

\* A fetch has failed while the cache held tasks.
C2_Witness ==
  /\ ev.kind = "fetchFail"
  /\ tasks # << >>
  /\ ~isLoading
  /\ ev.alert = "connectivity"

\* C3: while at least one fetchTasks request is in flight, isLoading is true.
C3_LoadingWhileFetching ==
  GetsInFlight # {} => isLoading

Quiescent == mounted /\ reqs = {}

\* C4 as stated: after a write, once every issued request has resolved, the
\* cache equals the server's current collection.
C4_CacheMatchesServer ==
  (Quiescent /\ ver > 0) => tasks = server

\* C4 as amended: after a write, once every issued request has resolved, the
\* cache equals the server's current collection provided the fetchTasks
\* response applied last was read after the server's last write.
C4_CacheMatchesServerWhenReadLast ==
  (Quiescent /\ ver > 0 /\ cacheVer = ver) => tasks = server

\* All requests have resolved, the server was written to and the cache holds
\* what was read after the last write.
C4_Witness ==
  /\ Quiescent
  /\ cacheVer = ver
  /\ ver > 1
  /\ tasks = server

MutationOk == {"createOk", "updateOk", "deleteOk"}

MutationFail == {"createFail", "updateFail", "deleteFail"}

\* C5: when the request of createTask / updateTaskStatus / deleteTask
\* succeeds, exactly one fetchTasks request is issued, in the step that
\* follows the success; no step issues a resync request otherwise, and a
\* mutation's request and its resync are never in flight together.
C5_OneResyncAfterSuccess ==
  [][ /\ ev'.kind \in MutationOk =>
           \E r \in Settled :
             /\ r.method # "GET"
             /\ r.phase = "served"
             /\ Settled = {r}
             /\ Cardinality(Issued) = 1
             /\ \A q \in Issued :
                  q.method = "GET" /\ q.rid = r.rid /\ q.op = r.op
      /\ ev'.kind \notin MutationOk =>
           \A q \in Issued : q.method = "GET" => q.op = "fetch"
      /\ \A q1, q2 \in reqs' : q1.rid = q2.rid => q1 = q2 ]_vars

\* A status update has succeeded and its resync request is in flight.
C5_Witness ==
  /\ ev.kind = "updateOk"
  /\ \E q \in reqs : q.method = "GET" /\ q.op = "update" /\ q.phase = "sent"

\* C6: when the request of createTask / updateTaskStatus / deleteTask fails,
\* the error reaches the caller, no fetchTasks request is issued, and the
\* cache and the loading flag are left as they were.
C6_FailurePropagates ==
  [][ ev'.kind \in MutationFail =>
        /\ ev'.thrown = TRUE
        /\ Issued = {}
        /\ \E r \in Settled : r.method # "GET" /\ Settled = {r}
        /\ tasks' = tasks
        /\ isLoading' = isLoading ]_vars

\* A delete has failed while a fetch was loading and the cache held tasks.
C6_Witness ==
  /\ ev.kind = "deleteFail"
  /\ ev.thrown
  /\ isLoading
  /\ tasks # << >>

\* ------------------------------------------ a mutation and its resync
HasStatus(ts, id, status) ==
  \E i \in 1..Len(ts) : ts[i].id = id /\ ts[i].status = status

\* Every task of `post` other than `id` that `pre` holds too has the status
\* it has in `pre`.
OthersKeepStatus(pre, post, id) ==
  \A i \in 1..Len(post), j \in 1..Len(pre) :
    (post[i].id = pre[j].id /\ post[i].id # id) =>
      post[i].status = pre[j].status

\* The step completes, successfully, the fetchTasks() that operation `op`
\* called after its request succeeded; r is that fetch's request.
ResyncDone(r, op) ==
  /\ ev'.kind = "fetchOk"
  /\ r \in Settled
  /\ r.op = op

\* The cache was the server's collection when the operation was called, and
\* the server applied no write but the operation's between that call and
\* the resync's read.
Undisturbed(r) ==
  /\ r.insync
  /\ r.readVer = r.ver0 + 1

\* What C7 says of the cache after updateTaskStatus(id, status) and
\* its resync.
StatusSet(r) ==
  /\ HasStatus(tasks', r.call.id, r.call.status)
  /\ OthersKeepStatus(r.pre, tasks', r.call.id)

\* C7 as stated: after updateTaskStatus(id, s) for a cached id and its
\* resync have both succeeded, the cached task id has status s and every
\* other cached task has the status it had before the call.
C7_StatusSetAfterResync ==
  [][ \A r \in reqs :
        (ResyncDone(r, "update") /\ r.call.id \in IdsOf(r.pre)) =>
          StatusSet(r) ]_vars

\* C7 as amended: the same, provided the cache was the server's collection
\* when updateTaskStatus was called and the server applied no other write
\* between that call and the resync's read.
C7_StatusSetWhenUndisturbed ==
  [][ \A r \in reqs :
        (ResyncDone(r, "update") /\ r.call.id \in IdsOf(r.pre)
           /\ Undisturbed(r)) =>
          StatusSet(r) ]_vars

\* The only operation invoked was an updateTaskStatus that changed a status;
\* its resync has completed and the cache shows the change.
C7_Witness ==
  /\ ev.kind = "fetchOk"
  /\ ev.of = "update"
  /\ ops = 1
  /\ cacheVer = 1
  /\ Len(tasks) = 2
  /\ tasks[1].status = "completed"
  /\ tasks[2].status = "completed"

\* What C8 says of the cache after deleteTask(id) and its resync.
Removed(r) ==
  /\ r.call.id \notin IdsOf(tasks')
  /\ Len(tasks') = Len(r.pre) - 1

\* C8 as stated: after deleteTask(id) for a cached id and its resync have
\* both succeeded, no cached task has that id and the cache holds exactly one
\* task less than before the call.
C8_RemovedAfterResync ==
  [][ \A r \in reqs :
        (ResyncDone(r, "delete") /\ r.call.id \in IdsOf(r.pre)) =>
          Removed(r) ]_vars

\* C8 as amended: the same, provided the cache was the server's collection
\* when deleteTask was called and the server applied no other write between
\* that call and the resync's read.
C8_RemovedWhenUndisturbed ==
  [][ \A r \in reqs :
        (ResyncDone(r, "delete") /\ r.call.id \in IdsOf(r.pre)
           /\ Undisturbed(r)) =>
          Removed(r) ]_vars

\* The only operation invoked was a deleteTask of the second task; its resync
\* has completed and the cache holds the first task alone.
C8_Witness ==
  /\ ev.kind = "fetchOk"
  /\ ev.of = "delete"
  /\ ops = 1
  /\ cacheVer = 1
  /\ IdsOf(tasks) = {1}

\* What C9 says of the cache after createTask(data) and its resync: it holds
\* a task that was not cached before, with the submitted title, description
\* and dueDate, and no two cached tasks share an id.
Created(r) ==
  /\ \E i \in 1..Len(tasks') :
       /\ tasks'[i].id \notin IdsOf(r.pre)
       /\ tasks'[i].title = r.call.data.title
       /\ tasks'[i].description = r.call.data.description
       /\ tasks'[i].dueDate = r.call.data.dueDate
  /\ \A i, j \in 1..Len(tasks') : tasks'[i].id = tasks'[j].id => i = j

\* C9 as stated: after createTask(data) and its resync have both succeeded,
\* the cache holds a new task with the submitted title, description and
\* dueDate, and all cached ids are pairwise distinct.
C9_CreatedAfterResync ==
  [][ \A r \in reqs : ResyncDone(r, "create") => Created(r) ]_vars

\* C9 as amended: the same, provided the server applied no other write
\* between the call of createTask and the resync's read.
C9_CreatedWhenNoOtherWrite ==
  [][ \A r \in reqs :
        (ResyncDone(r, "create") /\ r.readVer = r.ver0 + 1) =>
          Created(r) ]_vars

\* The only operation invoked was a createTask; its resync has completed and
\* the cache ends with the new task under a fresh id.
C9_Witness ==
  /\ ev.kind = "fetchOk"
  /\ ev.of = "create"
  /\ ops = 1
  /\ Len(tasks) = 3
  /\ tasks[3].title = << "C" >>
  /\ tasks[3].id = 3

\* C10: getTaskById(taskId) returns the cached task whose id is taskId when
\* there is one and undefined otherwise; it sends no request and leaves the
\* cache and the loading flag as they were.
C10_GetByIdIsPureLookup ==
  [][ ev'.kind = "getById" =>
        /\ IF ev'.id \in IdsOf(tasks)
             THEN \E i \in 1..Len(tasks) :
                    tasks[i].id = ev'.id /\ ev'.result = << tasks[i] >>
             ELSE ev'.result = << >>
        /\ reqs' = reqs
        /\ tasks' = tasks
        /\ isLoading' = isLoading ]_vars

\* A lookup has found a task that is not the first of the cache.
C10_Witness ==
  /\ ev.kind = "getById"
  /\ ev.result # << >>
  /\ ev.result[1].id = ev.id
  /\ tasks # << >>
  /\ tasks[1].id # ev.id


\* ---------------------------------------------------------------- C11
\* C11: a press of the save button with a title that is empty or whitespace
\* only issues no request (no POST, no GET /api/tasks), leaves the Store and
\* isSaving (false) as they were, stays on the Create view and raises the
\* validation alert.
C11_BlankTitleRejected ==
  [][vev'.handler = "handleSave" /\ trim(vev'.title) = << >> =>
       /\ Issued = {}
       /\ reqs' = reqs
       /\ UNCHANGED << tasks, isLoading, ops >>
       /\ ~isSaving /\ ~isSaving'
       /\ screen' = screen /\ vev'.nav = "none"
       /\ vev'.alert = "validation"]_vars

C11_Witness ==
  /\ vev.handler = "handleSave"
  /\ vev.title # << >> /\ trim(vev.title) = << >>
  /\ vev.alert = "validation"
  /\ screen = "addTask"
  /\ ~isSaving

\* ---------------------------------------------------------------- C12
\* C12: the cache changes only in a step that completes a fetchTasks with a
\* response, and then to that response; no step of createTask,
\* updateTaskStatus, deleteTask, getTaskById or of a view's handler (the
\* Detail view's patch of localTask among them) changes it.
C12_OnlyFetchWritesCache ==
  [][tasks' # tasks =>
       /\ ev'.kind = "fetchOk"
       /\ vev' = NoViewEvent
       /\ \E r \in Settled :
            r.method = "GET" /\ r.phase = "served" /\ tasks' = r.payload]_vars

\* The Detail view has patched its localTask and the cache still holds the
\* task as it was.
C12_Witness ==
  /\ vev.alert = "statusUpdated"
  /\ localTask # << >>
  /\ getTaskById(tasks, routeTaskId) # << >>
  /\ getTaskById(tasks, routeTaskId) # localTask

\* ---------------------------------------------------------------- C13
\* C13: the cache is the payload of the fetchTasks that resolved with a
\* response last.  A fetchTasks that resolves with a response sets the cache
\* to its payload whatever the cache holds and whenever it was called or
\* served, also when its payload was read before the one in the cache; and
\* between two such steps the cache does not change.
C13_LastResolvedWins ==
  [][/\ ev'.kind = "fetchOk" =>
          \A r \in Settled : tasks' = r.payload /\ cacheVer' = r.readVer
     /\ ev'.kind # "fetchOk" => UNCHANGED << tasks, cacheVer >>]_vars

\* Of two fetchTasks in flight at once the one served last has resolved; the
\* response of the other, read before a write, is the last to resolve.
C13_Witness ==
  /\ ev.kind = "fetchOk"
  /\ \E r \in reqs :
       /\ reqs = {r}
       /\ r.method = "GET"
       /\ r.phase = "served"
       /\ r.readVer < cacheVer
       /\ r.payload # tasks

\* ---------------------------------------------------------------- C14
\* C14: when the GET /api/tasks/{taskId} of a mounted Detail view fails, the
\* step raises the detail alert and calls navigation.goBack(), which leaves
\* the Detail view for the list view; localTask stays null, loading becomes
\* false, and the Store (cache, loading flag, requests of the Store) is not
\* touched.  When it resolves, localTask becomes response.data, no
\* navigation call is made and the Detail view stays on top.
C14_FetchDetailOutcome ==
  [][\A r \in Settled :
       /\ ev'.kind = "fetchDetailFail" =>
            /\ vev'.alert = "detailFailed" /\ vev'.nav = "goBack"
            /\ screen' = "home"
            /\ UNCHANGED << tasks, cacheVer, isLoading >>
            /\ Issued = {}
            /\ r.rid \notin orphans =>
                 /\ screen = "taskDetail"
                 /\ localTask = << >> /\ localTask' = << >>
                 /\ loading /\ ~loading'
       /\ ev'.kind = "fetchDetailOk" =>
            /\ vev'.nav = "none" /\ vev'.alert = "none"
            /\ screen' = screen
            /\ UNCHANGED << tasks, cacheVer, isLoading >>
            /\ r.rid \notin orphans =>
                 /\ screen = "taskDetail"
                 /\ localTask' = r.payload]_vars

\* The first request of the session after the mount fetch is the Detail
\* view's, and it has failed: the list view is back on top.
C14_Witness ==
  /\ ev.kind = "fetchDetailFail"
  /\ ops = 1
  /\ routeTaskId \in IdsOf(tasks)
  /\ screen = "home"
  /\ vev.alert = "detailFailed" /\ vev.nav = "goBack"
  /\ localTask = << >>
  /\ ~loading

\* ---------------------------------------------------------------- C15
\* C15: the step in which the request of createTask, updateTaskStatus or
\* deleteTask resolves calls fetchTasks() without awaiting it and returns to
\* the caller: the GET of the resync is in flight and unanswered, the cache
\* is as it was, nothing is thrown, and the caller's continuation has run
\* (handleSave and handleDelete call navigation.goBack(), handleToggleStatus
\* patches localTask and raises its success alert).  When that GET fails
\* later, the step raises the connectivity alert, throws nothing, and no
\* view handler runs.
C15_ResyncNotAwaited ==
  [][\A r \in Settled :
       /\ ev'.kind \in MutationOk =>
            /\ ~ev'.thrown
            /\ tasks' = tasks
            /\ \E g \in Issued :
                 /\ Issued = {g}
                 /\ g.method = "GET" /\ g.op = r.op
                 /\ g \in reqs'
            /\ ev'.kind = "createOk" =>
                 vev'.nav = "goBack" /\ screen' = "home"
            /\ ev'.kind = "deleteOk" =>
                 vev'.nav = "goBack" /\ screen' = "home"
            /\ ev'.kind = "updateOk" =>
                 /\ vev'.alert = "statusUpdated" /\ vev'.nav = "none"
                 /\ r.rid \notin orphans =>
                      /\ localTask' # << >>
                      /\ localTask'[1].status = r.call.status
       /\ ev'.kind = "fetchFail" /\ r.op # "fetch" =>
            /\ ~ev'.thrown
            /\ ev'.alert = "connectivity"
            /\ vev' = NoViewEvent
            /\ UNCHANGED << tasks, screen, isSaving, localTask, loading >>]_vars

\* createTask has returned and the Create view has navigated back, while
\* the GET of the resync is unanswered and the cache is the collection it
\* was when createTask was called, without the task the server has added.
C15_Witness ==
  /\ ev.kind = "createOk"
  /\ vev.nav = "goBack"
  /\ screen = "home"
  /\ Len(server) = Len(tasks) + 1
  /\ \E g \in reqs :
       /\ g.method = "GET" /\ g.op = "create"
       /\ g.phase = "sent"
       /\ tasks = g.pre

====
